---- MODULE Spec2Model ----
(***************************************************************************)
(* A model of python/ray/dataframe/utils.py: the LRUCache and the memoize  *)
(* wrapper built on it, and the partitioning helpers of the Ray DataFrame. *)
(***************************************************************************)
EXTENDS Integers, Sequences, FiniteSets, TLC

(***************************************************************************)
(* Bounds of the model.                                                    *)
(***************************************************************************)
\* Largest capacity an LRUCache is constructed with.  memoize constructs its
\* cache with _MEMOIZER_CAPACITY (1000, utils.py line 14); the model ranges the
\* capacity over 1..MaxCapacity so that a full cache is reached.
MaxCapacity == 2
\* Largest number of dispatches of the wrapped remote function in one run.
MaxDispatch == 4
\* Largest number of partitions (or of target lengths) handed to a helper.
MaxParts == 4
\* Largest number of rows, and of columns, of a table that is split.
MaxRows == 10
\* Largest number of extra argument lists passed to _map_partitions.
MaxLists == 3
MaxCols == 3
\* Largest length of one partition handed to _build_coord_df.
MaxLength == 3

\* Keys put into a bare LRUCache: one more than the largest capacity.
Keys == 1..(MaxCapacity + 1)
\* Values stored in a bare LRUCache.
Values == {10, 20}
\* Argument tuples passed to memoize.remote: the empty tuple and the
\* one-element tuples, one more tuple than the largest capacity.
ArgTuples == {<<>>} \cup {<<i>> : i \in 1..MaxCapacity}

VARIABLES
    capacity,       \* LRUCache.capacity
    cache,          \* LRUCache.cache: the OrderedDict, oldest entry first
    recency,        \* history: the keys ever put or got, least recently touched first
    last,           \* history: the last operation, its result and the state before it
    dispatch_log,   \* the calls made to memoize.old_remote_func, in order
    evictions,      \* history: how often each argument tuple left the memoize cache
    pc,             \* "idle", or "called" / "returned" for the helper call under way;
                    \* for concurrent remote calls, each call's position
    call_args,      \* the arguments of the partitioning helper that is called;
                    \* for concurrent remote calls, each call's argument tuple
    ret,            \* what that call returned or raised (for concurrent remote
                    \* calls, per call)
    deploy_log      \* the _deploy_func.remote calls issued, in order

cacheVars == <<capacity, cache, recency, last, dispatch_log, evictions>>
callVars == <<pc, call_args, ret, deploy_log>>
vars == <<capacity, cache, recency, last, dispatch_log, evictions,
          pc, call_args, ret, deploy_log>>

(***************************************************************************)
(* collections.OrderedDict, as a sequence of [key, value] records.         *)
(***************************************************************************)
CacheKeys(c) == {c[i].key : i \in 1..Len(c)}

\* OrderedDict.pop(key) for a key that is present: the dict without it.
DictPop(c, key) == SelectSeq(c, LAMBDA e : e.key # key)

\* The value stored under a key that is present.
DictValue(c, key) == c[CHOOSE i \in 1..Len(c) : c[i].key = key].value

\* OrderedDict.__setitem__ for a key that is absent: appended at the end.
DictAppend(c, key, value) == Append(c, [key |-> key, value |-> value])

\* OrderedDict.popitem(last=False): the dict without its first item.
DictPopOldest(c) == Tail(c)

(***************************************************************************)
(* class LRUCache                                                          *)
(***************************************************************************)
LRUCache_contains(c, key) == key \in CacheKeys(c)

\* __getitem__ that reads the value without re-inserting the entry.
LRUCache_getitem_NoMove(c, key) ==
    IF key \in CacheKeys(c)
    THEN [cache |-> c, raised |-> "none", value |-> DictValue(c, key)]
    ELSE [cache |-> c, raised |-> "KeyError", value |-> 0]

\* __getitem__: pop raises KeyError for an absent key, before anything is
\* written; otherwise the entry is re-inserted at the back of the queue.
LRUCache_getitem(c, key) ==
    IF key \in CacheKeys(c)
    THEN [cache  |-> DictAppend(DictPop(c, key), key, DictValue(c, key)),
          raised |-> "none",
          value  |-> DictValue(c, key)]
    ELSE [cache |-> c, raised |-> "KeyError", value |-> 0]

\* __setitem__ with the capacity test written > instead of >=.
LRUCache_setitem_LateEvict(c, cap, key, value) ==
    LET c1 == IF key \in CacheKeys(c) THEN DictPop(c, key) ELSE c
        c2 == IF Len(c1) > cap THEN DictPopOldest(c1) ELSE c1
    IN  DictAppend(c2, key, value)

\* __setitem__ without the removal of the key's old entry.
LRUCache_setitem_NoPop(c, cap, key, value) ==
    LET c2 == IF Len(c) >= cap THEN DictPopOldest(c) ELSE c
    IN  DictAppend(c2, key, value)

\* __setitem__
LRUCache_setitem(c, cap, key, value) ==
    LET c1 == IF key \in CacheKeys(c) THEN DictPop(c, key) ELSE c
        c2 == IF Len(c1) >= cap THEN DictPopOldest(c1) ELSE c1
    IN  DictAppend(c2, key, value)

(***************************************************************************)
(* History bookkeeping (not program state).                                *)
(***************************************************************************)
\* The order of most recent touches after key is put or successfully got.
Touch(r, key) == Append(SelectSeq(r, LAMBDA k : k # key), key)

\* The position of a key in the order of most recent touches.
TouchRank(r, key) == CHOOSE i \in 1..Len(r) : r[i] = key

LastRecord(op, key, value, raised, result) ==
    [op |-> op, key |-> key, value |-> value, raised |-> raised,
     result |-> result, before |-> cache, recency |-> recency,
     log |-> dispatch_log]

(***************************************************************************)
(* A bare LRUCache driven by put, get and contains.                        *)
(***************************************************************************)
\* No partitioning helper is being called.
NoCall ==
    /\ pc = "idle"
    /\ call_args = <<>>
    /\ ret = <<>>
    /\ deploy_log = <<>>

InitLRU ==
    /\ NoCall
    /\ capacity \in 1..MaxCapacity
    /\ cache = <<>>
    /\ recency = <<>>
    /\ last = [op |-> "init", key |-> 0, value |-> 0, raised |-> "none",
               result |-> 0, before |-> <<>>, recency |-> <<>>, log |-> <<>>]
    /\ dispatch_log = <<>>
    /\ evictions = <<>>

Put(key, value) ==
    /\ cache' = LRUCache_setitem(cache, capacity, key, value)
    /\ recency' = Touch(recency, key)
    /\ last' = LastRecord("put", key, value, "none", 0)
    /\ UNCHANGED <<capacity, dispatch_log, evictions>>
    /\ UNCHANGED callVars

Get(key) ==
    LET r == LRUCache_getitem(cache, key) IN
    /\ cache' = r.cache
    /\ recency' = IF key \in CacheKeys(cache) THEN Touch(recency, key) ELSE recency
    /\ last' = LastRecord("get", key, 0, r.raised, r.value)
    /\ UNCHANGED <<capacity, dispatch_log, evictions>>
    /\ UNCHANGED callVars

Contains(key) ==
    /\ last' = LastRecord("contains", key, 0, "none",
                          IF LRUCache_contains(cache, key) THEN 1 ELSE 0)
    /\ UNCHANGED <<capacity, cache, recency, dispatch_log, evictions>>
    /\ UNCHANGED callVars

NextLRU ==
    \/ \E key \in Keys, value \in Values : Put(key, value)
    \/ \E key \in Keys : Get(key)
    \/ \E key \in Keys : Contains(key)

SpecLRU == InitLRU /\ [][NextLRU]_vars

\* C2: a cache of capacity C >= 1 never holds more than C entries, and a put
\* of an absent key into a cache holding C entries removes exactly one entry,
\* the one whose most recent put or successful get is the oldest (so after
\* putting k1..k(C+1) in order it is k1, unless k1 was touched again); the
\* other entries keep their values.
LRUCapacityAndEviction ==
    /\ Len(cache) <= capacity
    /\ (/\ last.op = "put"
        /\ last.key \notin CacheKeys(last.before)
        /\ Len(last.before) = capacity)
       => \E victim \in CacheKeys(last.before) :
            /\ CacheKeys(cache) = (CacheKeys(last.before) \ {victim}) \cup {last.key}
            /\ Len(cache) = capacity
            /\ \A k \in CacheKeys(last.before) :
                   TouchRank(last.recency, victim) <= TouchRank(last.recency, k)
            /\ \A k \in CacheKeys(last.before) \ {victim} :
                   DictValue(cache, k) = DictValue(last.before, k)
            /\ DictValue(cache, last.key) = last.value

\* C2 witness: a put into a full cache has just evicted the first key ever
\* put, which was not touched since, and kept a key put after it.
LRUEvictionReached ==
    /\ last.op = "put"
    /\ last.key \notin CacheKeys(last.before)
    /\ Len(last.before) = capacity
    /\ capacity = MaxCapacity
    /\ last.recency[1] \in CacheKeys(last.before)
    /\ last.recency[1] \notin CacheKeys(cache)

\* C10: get of an absent key raises KeyError and leaves the cache as it was;
\* get of a present key returns the stored value, makes the key the most
\* recently used and leaves the keys, the values and the relative order of the
\* other keys unchanged; contains changes nothing.
LRUGetAndContains ==
    /\ (last.op = "get" /\ last.key \notin CacheKeys(last.before))
       => (last.raised = "KeyError" /\ cache = last.before)
    /\ (last.op = "get" /\ last.key \in CacheKeys(last.before))
       => /\ last.raised = "none"
          /\ last.result = DictValue(last.before, last.key)
          /\ cache[Len(cache)].key = last.key
          /\ Len(cache) = Len(last.before)
          /\ CacheKeys(cache) = CacheKeys(last.before)
          /\ \A k \in CacheKeys(cache) :
                 DictValue(cache, k) = DictValue(last.before, k)
          /\ DictPop(cache, last.key) = DictPop(last.before, last.key)
    /\ (last.op = "contains")
       => /\ cache = last.before
          /\ last.result = (IF last.key \in CacheKeys(last.before) THEN 1 ELSE 0)

\* C10 witness: a get has just moved the oldest of several entries to the back.
LRUGetMovedOldest ==
    /\ last.op = "get"
    /\ Len(last.before) >= 2
    /\ last.before[1].key = last.key
    /\ cache[Len(cache)].key = last.key
    /\ last.raised = "none"

(***************************************************************************)
(* class memoize: one wrapper, its remote calls issued one after another.  *)
(***************************************************************************)
\* How often the wrapped remote function was called with the tuple args.
DispatchCount(log, args) == Cardinality({i \in 1..Len(log) : log[i] = args})

\* The handle old_remote_func returned for the latest call with args: the
\* n-th call of the wrapped function returns the fresh handle n.
LatestHandle(log, args) ==
    CHOOSE i \in 1..Len(log) :
        log[i] = args /\ \A j \in 1..Len(log) : log[j] = args => j <= i

\* The handle old_remote_func returned for the first call with args.
FirstHandle(log, args) ==
    CHOOSE i \in 1..Len(log) :
        log[i] = args /\ \A j \in 1..Len(log) : log[j] = args => i <= j

\* remote without the membership test: every call is dispatched.
memoize_remote_NoLookup(c, cap, log, args) ==
    [cache  |-> LRUCache_setitem(c, cap, args, Len(log) + 1),
     log    |-> Append(log, args),
     result |-> Len(log) + 1]

\* memoize.remote(*args): the cache, the dispatch log and the handle returned.
memoize_remote(c, cap, log, args) ==
    IF LRUCache_contains(c, args)
    THEN [cache  |-> LRUCache_getitem(c, args).cache,
          log    |-> log,
          result |-> LRUCache_getitem(c, args).value]
    ELSE [cache  |-> LRUCache_setitem(c, cap, args, Len(log) + 1),
          log    |-> Append(log, args),
          result |-> Len(log) + 1]

InitMemo ==
    /\ NoCall
    /\ capacity \in 1..MaxCapacity
    /\ cache = <<>>
    /\ recency = <<>>
    /\ last = [op |-> "init", key |-> <<>>, value |-> 0, raised |-> "none",
               result |-> 0, before |-> <<>>, recency |-> <<>>, log |-> <<>>]
    /\ dispatch_log = <<>>
    /\ evictions = [a \in ArgTuples |-> 0]

Remote(args) ==
    LET r == memoize_remote(cache, capacity, dispatch_log, args) IN
    /\ Len(dispatch_log) < MaxDispatch
    /\ cache' = r.cache
    /\ dispatch_log' = r.log
    /\ recency' = Touch(recency, args)
    /\ evictions' = [a \in ArgTuples |->
                        IF a \in CacheKeys(cache) \ CacheKeys(r.cache)
                        THEN evictions[a] + 1 ELSE evictions[a]]
    /\ last' = LastRecord("remote", args, 0, "none", r.result)
    /\ UNCHANGED capacity
    /\ UNCHANGED callVars

NextMemo == \E args \in ArgTuples : Remote(args)

SpecMemo == InitMemo /\ [][NextMemo]_vars

\* C1 as stated: whatever the number of distinct argument tuples, each tuple
\* is dispatched at most once and a later call returns the handle of the
\* first dispatch.
MemoAtMostOneDispatchPerTuple ==
    /\ \A a \in ArgTuples : DispatchCount(dispatch_log, a) <= 1
    /\ (last.op = "remote" /\ DispatchCount(last.log, last.key) > 0)
       => (dispatch_log = last.log
           /\ last.result = FirstHandle(last.log, last.key))

\* C1 amended: a tuple is dispatched only when it is not in the cache, that
\* is once plus once for every time its entry was evicted; a call with a
\* cached tuple dispatches nothing and returns the handle of that tuple's
\* latest dispatch; and while the distinct tuples dispatched do not outnumber
\* the capacity, each was dispatched once and a repeated call returns the
\* handle of the first dispatch.
MemoDispatchOnlyOnMiss ==
    /\ \A a \in ArgTuples : DispatchCount(dispatch_log, a) <= 1 + evictions[a]
    /\ (last.op = "remote" /\ last.key \in CacheKeys(last.before))
       => (dispatch_log = last.log
           /\ last.result = LatestHandle(last.log, last.key))
    /\ (Cardinality({a \in ArgTuples : DispatchCount(dispatch_log, a) > 0}) <= capacity)
       => /\ \A a \in ArgTuples : DispatchCount(dispatch_log, a) <= 1
          /\ (last.op = "remote" /\ DispatchCount(last.log, last.key) > 0)
             => (dispatch_log = last.log
                 /\ last.result = FirstHandle(last.log, last.key))

\* C1 witness: a call has just hit the cache after an earlier entry of
\* another tuple was evicted, and was answered without a dispatch.
MemoHitReached ==
    /\ last.op = "remote"
    /\ last.key \in CacheKeys(last.before)
    /\ dispatch_log = last.log
    /\ \E a \in ArgTuples : evictions[a] > 0

(***************************************************************************)
(* Python lists and pandas indexes, as sequences.                          *)
(***************************************************************************)
\* The sequences over S of length at most n.
SeqsUpTo(S, n) == UNION {[1..k -> S] : k \in 0..n}

Min(a, b) == IF a <= b THEN a ELSE b

RECURSIVE Sum(_)
Sum(s) == IF s = <<>> THEN 0 ELSE Head(s) + Sum(Tail(s))

\* pandas.RangeIndex(0, n): the labels 0 .. n-1.
RangeIndex(n) == [i \in 1..n |-> i - 1]

\* An index whose labels are not the positions: what a caller's table carries.
LabelIndex(n) == [i \in 1..n |-> 100 + n - i]

(***************************************************************************)
(* _build_coord_df                                                         *)
(***************************************************************************)
\* np.vstack of, for the i-th filtered length l (i counted from 0),
\* np.column_stack((np.full(l, i), np.arange(l))).
RECURSIVE CoordRows(_, _)
CoordRows(filtered_lengths, i) ==
    IF i >= Len(filtered_lengths) THEN <<>>
    ELSE [o \in 1..filtered_lengths[i + 1] |->
             [partition |-> i, index_within_partition |-> o - 1]]
         \o CoordRows(filtered_lengths, i + 1)

\* The coordinate frame: its rows in order, and the index laid over them.
_build_coord_df(lengths, index) ==
    LET filtered_lengths == SelectSeq(lengths, LAMBDA x : x > 0)
    IN  [coords |-> IF Len(filtered_lengths) > 0
                    THEN CoordRows(filtered_lengths, 0) ELSE <<>>,
         index  |-> index]

\* No cache is in use while a partitioning helper is checked.
NoCache ==
    /\ capacity = 1
    /\ cache = <<>>
    /\ recency = <<>>
    /\ last = [op |-> "init", key |-> 0, value |-> 0, raised |-> "none",
               result |-> 0, before |-> <<>>, recency |-> <<>>, log |-> <<>>]
    /\ dispatch_log = <<>>
    /\ evictions = <<>>

InitCoord ==
    /\ NoCache
    /\ pc = "called"
    /\ \E lengths \in SeqsUpTo(0..MaxLength, MaxParts) :
          call_args = [lengths |-> lengths, index |-> LabelIndex(Sum(lengths))]
    /\ ret = <<>>
    /\ deploy_log = <<>>

BuildCoordDf ==
    /\ pc = "called"
    /\ ret' = _build_coord_df(call_args.lengths, call_args.index)
    /\ pc' = "returned"
    /\ UNCHANGED <<call_args, deploy_log>>
    /\ UNCHANGED cacheVars

NextCoord == BuildCoordDf

SpecCoord == InitCoord /\ [][NextCoord]_vars

\* C3: in the coordinate frame built from any sequence of partition lengths,
\* every entry (p, o) has 0 <= p < number of partitions and
\* 0 <= o < lengths[p], p indexing the sequence as it was passed in, and the
\* number of entries is the sum of the lengths.
CoordEntriesWithinPartitions ==
    pc = "returned" =>
        /\ Len(ret.coords) = Sum(call_args.lengths)
        /\ \A k \in 1..Len(ret.coords) :
              LET p == ret.coords[k].partition
                  o == ret.coords[k].index_within_partition
              IN  /\ 0 <= p /\ p < Len(call_args.lengths)
                  /\ 0 <= o /\ o < call_args.lengths[p + 1]

(***************************************************************************)
(* pandas.DataFrame: index and columns are the labels, rows and cols name  *)
(* the data (the cell at row r, column c holds the value of (r, c)).       *)
(***************************************************************************)
\* A caller's table of the given shape.
MakeFrame(n_row, n_col) ==
    [index |-> LabelIndex(n_row), columns |-> LabelIndex(n_col),
     rows |-> [i \in 1..n_row |-> i], cols |-> [j \in 1..n_col |-> j]]

\* The Python slice s[lo:hi] for 0 <= lo and 0 <= hi.
Slice(s, lo, hi) == SubSeq(s, lo + 1, Min(hi, Len(s)))

\* df.iloc[lo:hi, :] and df[lo:hi]
iloc_rows(df, lo, hi) ==
    [df EXCEPT !.index = Slice(df.index, lo, hi), !.rows = Slice(df.rows, lo, hi)]

\* df.iloc[:, lo:hi]
iloc_cols(df, lo, hi) ==
    [df EXCEPT !.columns = Slice(df.columns, lo, hi), !.cols = Slice(df.cols, lo, hi)]

\* df.reset_index(drop=True, inplace=True);
\* df.columns = pandas.RangeIndex(0, len(df.columns))
reset_labels(df) ==
    [df EXCEPT !.index = RangeIndex(Len(df.rows)),
               !.columns = RangeIndex(Len(df.cols))]

\* pandas.concat(frames, axis=0) of at least one frame, all with the same columns.
RECURSIVE concat_axis0(_)
concat_axis0(frames) ==
    IF Len(frames) = 1 THEN frames[1]
    ELSE LET rest == concat_axis0(Tail(frames))
         IN  [frames[1] EXCEPT !.index = frames[1].index \o rest.index,
                               !.rows = frames[1].rows \o rest.rows]

\* pandas.concat(frames, axis=1) of at least one frame, all with the same index.
RECURSIVE concat_axis1(_)
concat_axis1(frames) ==
    IF Len(frames) = 1 THEN frames[1]
    ELSE LET rest == concat_axis1(Tail(frames))
         IN  [frames[1] EXCEPT !.columns = frames[1].columns \o rest.columns,
                               !.cols = frames[1].cols \o rest.cols]

(***************************************************************************)
(* _partition_pandas_dataframe, from_pandas, to_pandas                     *)
(***************************************************************************)
\* An optional argument: None, or the value given.
None == <<>>
Some(x) == <<x>>

\* The chunk size computed without the test for an exact multiple.
row_chunksize_of_PlusOne(n, num_partitions) == n \div num_partitions + 1

\* row_chunksize as computed from num_partitions for a table of n rows.
row_chunksize_of(n, num_partitions) ==
    IF n % num_partitions = 0
    THEN n \div num_partitions
    ELSE n \div num_partitions + 1

\* The while loop and its else branch: the partitions put so far are
\* row_partitions, temp_df is what is left of the table.
RECURSIVE partition_loop(_, _, _)
partition_loop(temp_df, row_chunksize, row_partitions) ==
    IF Len(temp_df.rows) > row_chunksize
    THEN partition_loop(iloc_rows(temp_df, row_chunksize, Len(temp_df.rows)),
                        row_chunksize,
                        Append(row_partitions,
                               reset_labels(iloc_rows(temp_df, 0, row_chunksize))))
    ELSE Append(row_partitions, reset_labels(temp_df))

_partition_pandas_dataframe(df, num_partitions, row_chunksize) ==
    partition_loop(df,
                   IF num_partitions # None
                   THEN row_chunksize_of(Len(df.rows), num_partitions[1])
                   ELSE row_chunksize[1],
                   <<>>)

\* The Ray DataFrame built by from_pandas.
from_pandas(df, num_partitions, chunksize) ==
    [_row_partitions |-> _partition_pandas_dataframe(df, num_partitions, chunksize),
     columns |-> df.columns,
     index |-> df.index]

to_pandas(df) ==
    [concat_axis0(df._row_partitions) EXCEPT !.index = df.index,
                                             !.columns = df.columns]

(***************************************************************************)
(* create_blocks_helper, _blocks_to_row, _blocks_to_col                    *)
(***************************************************************************)
\* df.shape[axis ^ 1]: the number of columns for axis 0, of rows for axis 1.
extent(df, axis) == IF axis = 0 THEN Len(df.cols) ELSE Len(df.rows)

\* The block size rounded down instead of up.
block_size_of_Floor(n, npartitions) == n \div npartitions

block_size_of(n, npartitions) ==
    IF n % npartitions = 0
    THEN n \div npartitions
    ELSE n \div npartitions + 1

\* What create_blocks_helper returns: the frame itself for one partition,
\* otherwise the list of npartitions blocks.
create_blocks_helper(df, npartitions, axis) ==
    IF npartitions = 1 THEN [kind |-> "frame", frame |-> df]
    ELSE LET block_size == block_size_of(extent(df, axis), npartitions)
         IN  [kind |-> "list",
              blocks |-> [k \in 1..npartitions |->
                  reset_labels(
                      IF axis = 0
                      THEN iloc_cols(df, (k - 1) * block_size, k * block_size)
                      ELSE iloc_rows(df, (k - 1) * block_size, k * block_size))]]

\* The return values of the remote create_blocks, submitted with
\* num_return_vals = npartitions: the single frame, or the blocks.
BlocksOf(r) == IF r.kind = "frame" THEN <<r.frame>> ELSE r.blocks

\* _blocks_to_row: the blocks side by side, with labels reset.
_blocks_to_row(partition) == reset_labels(concat_axis1(partition))

\* _blocks_to_col: the blocks on top of each other, with the index reset.
_blocks_to_col(partition) ==
    LET c == concat_axis0(partition)
    IN  [c EXCEPT !.index = RangeIndex(Len(c.rows))]

InitSplit ==
    /\ NoCache
    /\ pc = "called"
    /\ \E n_row \in 0..MaxRows, n_col \in 0..MaxCols, n \in 1..MaxParts,
          axis \in {0, 1} :
          call_args = [df |-> MakeFrame(n_row, n_col), n |-> n, axis |-> axis]
    /\ ret = <<>>
    /\ deploy_log = <<>>

\* from_pandas(df, num_partitions=n)
PartitionByCount ==
    /\ pc = "called"
    /\ ret' = [fn |-> "_partition_pandas_dataframe", by |-> "num_partitions",
               parts |-> from_pandas(call_args.df, Some(call_args.n), None)._row_partitions,
               back |-> to_pandas(from_pandas(call_args.df, Some(call_args.n), None))]
    /\ pc' = "returned"
    /\ UNCHANGED <<call_args, deploy_log>>
    /\ UNCHANGED cacheVars

\* from_pandas(df, chunksize=n)
PartitionByChunksize ==
    /\ pc = "called"
    /\ ret' = [fn |-> "_partition_pandas_dataframe", by |-> "row_chunksize",
               parts |-> from_pandas(call_args.df, None, Some(call_args.n))._row_partitions,
               back |-> to_pandas(from_pandas(call_args.df, None, Some(call_args.n)))]
    /\ pc' = "returned"
    /\ UNCHANGED <<call_args, deploy_log>>
    /\ UNCHANGED cacheVars

\* create_blocks(df, npartitions=n, axis), and its blocks put together again.
CreateBlocks ==
    LET parts == BlocksOf(create_blocks_helper(call_args.df, call_args.n, call_args.axis))
    IN
    /\ pc = "called"
    /\ ret' = [fn |-> "create_blocks_helper", by |-> "npartitions",
               parts |-> parts,
               back |-> IF call_args.axis = 0
                        THEN _blocks_to_row(parts) ELSE _blocks_to_col(parts)]
    /\ pc' = "returned"
    /\ UNCHANGED <<call_args, deploy_log>>
    /\ UNCHANGED cacheVars

NextSplit ==
    \/ PartitionByCount
    \/ PartitionByChunksize
    \/ CreateBlocks

SpecSplit == InitSplit /\ [][NextSplit]_vars

\* The extent of the split table, and of each emitted partition, along the
\* axis that was split.
SplitAlongRows == ret.fn = "_partition_pandas_dataframe" \/ call_args.axis = 1
SplitTotal ==
    IF SplitAlongRows THEN Len(call_args.df.rows) ELSE Len(call_args.df.cols)
SplitLengthsOf(parts) ==
    [k \in 1..Len(parts) |->
        IF SplitAlongRows THEN Len(parts[k].rows) ELSE Len(parts[k].cols)]
\* ceil(total / n)
CeilDiv(total, n) == (total + n - 1) \div n

\* C4 as stated: for both splitters with a target count N, the lengths sum to
\* T, each is at most chunk = ceil(T/N), every partition except the last has
\* length exactly chunk, and T = 10, N = 3 gives [4, 4, 2].
SplitOnlyLastShorter ==
    (pc = "returned" /\ ret.by \in {"num_partitions", "npartitions"}) =>
        LET lens == SplitLengthsOf(ret.parts)
            chunk == CeilDiv(SplitTotal, call_args.n)
        IN  /\ Sum(lens) = SplitTotal
            /\ \A k \in 1..Len(lens) : lens[k] <= chunk
            /\ \A k \in 1..(Len(lens) - 1) : lens[k] = chunk
            /\ (SplitTotal = 10 /\ call_args.n = 3) => lens = <<4, 4, 2>>

\* C4 amended: for both splitters the lengths sum to T and each is at most
\* chunk = ceil(T/N); _partition_pandas_dataframe emits partitions of which
\* every one except the last has length exactly chunk; create_blocks_helper
\* emits exactly N blocks of which every one that is followed by a non-empty
\* block has length exactly chunk (the blocks after the last non-empty one
\* are empty); T = 10, N = 3 gives [4, 4, 2] for both.
SplitLengths ==
    (pc = "returned" /\ ret.by \in {"num_partitions", "npartitions"}) =>
        LET lens == SplitLengthsOf(ret.parts)
            chunk == CeilDiv(SplitTotal, call_args.n)
        IN  /\ Sum(lens) = SplitTotal
            /\ \A k \in 1..Len(lens) : lens[k] <= chunk
            /\ ret.fn = "_partition_pandas_dataframe"
                  => \A k \in 1..(Len(lens) - 1) : lens[k] = chunk
            /\ ret.fn = "create_blocks_helper"
                  => /\ Len(lens) = call_args.n
                     /\ \A k \in 1..(Len(lens) - 1) :
                           lens[k + 1] > 0 => lens[k] = chunk
            /\ (SplitTotal = 10 /\ call_args.n = 3) => lens = <<4, 4, 2>>

\* C4 witness: create_blocks_helper has split 5 rows into 4 blocks, the
\* third shorter than chunk = 2 and the fourth empty.
SplitShortThenEmptyReached ==
    /\ pc = "returned"
    /\ ret.fn = "create_blocks_helper"
    /\ call_args.n = 4
    /\ SplitTotal = 5
    /\ SplitLengthsOf(ret.parts) = <<2, 2, 1, 0>>

\* The data of the partitions, in emission order, along the split axis.
RECURSIVE SplitDataOf(_)
SplitDataOf(parts) ==
    IF parts = <<>> THEN <<>>
    ELSE (IF SplitAlongRows THEN parts[1].rows ELSE parts[1].cols)
         \o SplitDataOf(Tail(parts))

\* C5: for every table and every partition count N >= 1, the partitions a
\* splitter emits, concatenated in emission order, hold exactly the table's
\* elements in the original order and extent: nothing is lost, duplicated
\* or reordered (and to_pandas gives back the table from_pandas was given).
SplitConcatRoundTrip ==
    pc = "returned" =>
        /\ SplitDataOf(ret.parts) =
              (IF SplitAlongRows THEN call_args.df.rows ELSE call_args.df.cols)
        /\ \A k \in 1..Len(ret.parts) :
              IF SplitAlongRows
              THEN ret.parts[k].cols = call_args.df.cols
              ELSE ret.parts[k].rows = call_args.df.rows
        /\ ret.back.rows = call_args.df.rows
        /\ ret.back.cols = call_args.df.cols
        /\ Len(ret.back.index) = Len(call_args.df.index)
        /\ Len(ret.back.columns) = Len(call_args.df.columns)
        /\ ret.fn = "_partition_pandas_dataframe" => ret.back = call_args.df

\* C5 witness: 10 rows were split into 3 blocks by create_blocks_helper, the
\* last one shorter, and put together again.
SplitRoundTripReached ==
    /\ pc = "returned"
    /\ ret.fn = "create_blocks_helper"
    /\ call_args.axis = 1
    /\ Len(call_args.df.rows) = 10
    /\ Len(call_args.df.cols) >= 2
    /\ Len(ret.parts) = 3
    /\ Len(ret.parts[3].rows) = 2
    /\ ret.back.rows = call_args.df.rows

(***************************************************************************)
(* _deploy_func, _map_partitions                                           *)
(***************************************************************************)
\* The i-th partition handle of the list passed in.
Partition(i) == [tag |-> "partition", pos |-> i]

\* The extra argument list number j, of the given length, and its items.
Item(j, i) == [tag |-> "item", list |-> j, pos |-> i]
PyList(j, n) == [tag |-> "list", items |-> [i \in 1..n |-> Item(j, i)]]

\* len() of a Python list
len(l) == Len(l.items)

\* _deploy_func(func, dataframe, *args): the arguments func is called with.
_deploy_func(dataframe, extra) == [func_args |-> <<dataframe>> \o extra]

\* zip(partitions, *argslists): as many tuples as the shortest argument.
zip(partitions, argslists) ==
    LET shortest == CHOOSE n \in {Len(partitions)} \cup {len(argslists[j]) : j \in 1..Len(argslists)} :
                        /\ n <= Len(partitions)
                        /\ \A j \in 1..Len(argslists) : n <= len(argslists[j])
    IN  [i \in 1..shortest |->
            <<partitions[i]>> \o [j \in 1..Len(argslists) |-> argslists[j].items[i]]]

\* _map_partitions without the assertion on the lengths.
_map_partitions_NoAssert(partitions, argslists) ==
    IF partitions = None THEN [raised |-> "none", calls |-> <<>>, none |-> TRUE]
    ELSE [raised |-> "none", none |-> FALSE,
          calls |-> [i \in 1..Len(zip(partitions[1], argslists)) |->
                       _deploy_func(zip(partitions[1], argslists)[i][1],
                                    Tail(zip(partitions[1], argslists)[i]))]]

\* _map_partitions(func, partitions, *argslists) for a callable func: what
\* is raised, whether None is returned, and the _deploy_func.remote calls
\* issued in order (the returned list holds their handles in that order).
_map_partitions(partitions, argslists) ==
    IF partitions = None THEN [raised |-> "none", calls |-> <<>>, none |-> TRUE]
    ELSE LET parts == partitions[1] IN
         IF Len(argslists) = 0
         THEN [raised |-> "none", none |-> FALSE,
               calls |-> [i \in 1..Len(parts) |-> _deploy_func(parts[i], <<>>)]]
         ELSE IF Len(argslists) = 1
         THEN [raised |-> "none", none |-> FALSE,
               calls |-> [i \in 1..Len(parts) |->
                            _deploy_func(parts[i], <<argslists[1]>>)]]
         ELSE IF \E j \in 1..Len(argslists) : len(argslists[j]) # Len(parts)
         THEN [raised |-> "AssertionError", none |-> FALSE, calls |-> <<>>]
         ELSE [raised |-> "none", none |-> FALSE,
               calls |-> [i \in 1..Len(zip(parts, argslists)) |->
                            _deploy_func(zip(parts, argslists)[i][1],
                                         Tail(zip(parts, argslists)[i]))]]

InitMap ==
    /\ NoCache
    /\ pc = "called"
    /\ \E partitions \in {None} \cup {Some([i \in 1..n |-> Partition(i)]) : n \in 0..MaxParts},
          lens \in SeqsUpTo(0..MaxParts, MaxLists) :
          call_args = [partitions |-> partitions,
                       argslists |-> [j \in 1..Len(lens) |-> PyList(j, lens[j])]]
    /\ ret = <<>>
    /\ deploy_log = <<>>

\* The handle of the n-th _deploy_func.remote call is n.
MapPartitions ==
    LET r == _map_partitions(call_args.partitions, call_args.argslists) IN
    /\ pc = "called"
    /\ deploy_log' = deploy_log \o r.calls
    /\ ret' = [raised |-> r.raised, none |-> r.none,
               result |-> [i \in 1..Len(r.calls) |-> Len(deploy_log) + i]]
    /\ pc' = "returned"
    /\ UNCHANGED call_args
    /\ UNCHANGED cacheVars

NextMap == MapPartitions

SpecMap == InitMap /\ [][NextMap]_vars

\* C6: with exactly one extra argument list (of one element per partition),
\* the i-th dispatched call is func(partitions[i], extra[i]).
MapOneListPairsPositionally ==
    (/\ pc = "returned"
     /\ call_args.partitions # None
     /\ Len(call_args.argslists) = 1
     /\ len(call_args.argslists[1]) = Len(call_args.partitions[1]))
    => /\ Len(deploy_log) = Len(call_args.partitions[1])
       /\ \A i \in 1..Len(deploy_log) :
             deploy_log[i].func_args =
                 <<call_args.partitions[1][i], call_args.argslists[1].items[i]>>

\* C7: with two or more extra argument lists, a list whose length differs
\* from the number of partitions makes the call fail with no dispatch
\* issued; when all lengths match, one dispatch is issued per partition and
\* the i-th handle returned is that of the call on the i-th partition, with
\* the i-th item of every list.
MapManyListsFailFast ==
    (/\ pc = "returned"
     /\ call_args.partitions # None
     /\ Len(call_args.argslists) >= 2)
    => LET parts == call_args.partitions[1]
           lists == call_args.argslists
       IN  IF \E j \in 1..Len(lists) : Len(lists[j].items) # Len(parts)
           THEN ret.raised = "AssertionError" /\ deploy_log = <<>>
           ELSE /\ ret.raised = "none"
                /\ Len(deploy_log) = Len(parts)
                /\ Len(ret.result) = Len(parts)
                /\ \A i \in 1..Len(parts) :
                      /\ deploy_log[ret.result[i]].func_args[1] = parts[i]
                      /\ Len(deploy_log[ret.result[i]].func_args) = 1 + Len(lists)
                      /\ \A j \in 1..Len(lists) :
                            deploy_log[ret.result[i]].func_args[1 + j] = Item(j, i)

\* C7 witness: of two lists passed with three partitions the first matches
\* and the second is shorter, and the call failed without a dispatch.
MapMismatchRejectedReached ==
    /\ pc = "returned"
    /\ call_args.partitions # None
    /\ Len(call_args.partitions[1]) = 3
    /\ Len(call_args.argslists) = 2
    /\ len(call_args.argslists[1]) = 3
    /\ len(call_args.argslists[2]) = 2
    /\ ret.raised = "AssertionError"
    /\ deploy_log = <<>>

(***************************************************************************)
(* _co_op_helper                                                           *)
(***************************************************************************)
\* A pandas.Index object held in a list beside frames.
IndexObject(labels) == [tag |-> "index", labels |-> labels]

\* func(left, right) for the two functions the model passes: the one that
\* returns its left operand's table, and the one that returns its right one's.
apply_func(func, left, right) == IF func = "first" THEN left ELSE right

\* left (or right): the blocks side by side, relabelled.
co_op_operand(blocks, columns, idx) ==
    LET whole == [concat_axis1(blocks) EXCEPT !.columns = columns]
    IN  IF idx # None THEN [whole EXCEPT !.index = idx[1]] ELSE whole

\* _co_op_helper.  new_blocks.append(new_rows.index) appends to the list
\* create_blocks_helper returned; when it returned the frame itself
\* (left_df_len = 1) the call is DataFrame.append, which never changes the
\* frame in place: append_outcome says whether pandas raises on the Index
\* argument ("raises") or returns a new frame that is dropped ("returns").
_co_op_helper(func, left_columns, right_columns, left_df_len, left_idx, zipped, append_outcome) ==
    LET left == co_op_operand(SubSeq(zipped, 1, left_df_len), left_columns, left_idx)
        right == co_op_operand(SubSeq(zipped, left_df_len + 1, Len(zipped)),
                               right_columns, None)
        new_rows == apply_func(func, left, right)
        new_blocks == create_blocks_helper(new_rows, left_df_len, 0)
    IN  IF left_idx = None
        THEN [raised |-> "none", value |-> new_blocks]
        ELSE IF new_blocks.kind = "list"
        THEN [raised |-> "none",
              value |-> [new_blocks EXCEPT
                            !.blocks = Append(@, IndexObject(new_rows.index))]]
        ELSE IF append_outcome = "raises"
        THEN [raised |-> "TypeError", value |-> new_blocks]
        ELSE [raised |-> "none", value |-> new_blocks]

InitCoOp ==
    /\ NoCache
    /\ pc = "called"
    /\ \E n_row \in 0..MaxLength, left_width \in 1..MaxCols, right_width \in 1..MaxCols,
          left_df_len \in 1..MaxParts, right_df_len \in 1..2,
          with_idx \in BOOLEAN, func \in {"first", "second"} :
          call_args =
            [func |-> func,
             left_columns |-> LabelIndex(left_width),
             right_columns |-> LabelIndex(right_width),
             left_df_len |-> left_df_len,
             left_idx |-> IF with_idx THEN Some(LabelIndex(n_row)) ELSE None,
             zipped |->
                BlocksOf(create_blocks_helper(
                    reset_labels(MakeFrame(n_row, left_width)), left_df_len, 0))
                \o BlocksOf(create_blocks_helper(
                    reset_labels(MakeFrame(n_row, right_width)), right_df_len, 0))]
    /\ ret = <<>>
    /\ deploy_log = <<>>

CoOp(append_outcome) ==
    /\ pc = "called"
    /\ ret' = _co_op_helper(call_args.func, call_args.left_columns,
                            call_args.right_columns, call_args.left_df_len,
                            call_args.left_idx, call_args.zipped, append_outcome)
    /\ pc' = "returned"
    /\ UNCHANGED <<call_args, deploy_log>>
    /\ UNCHANGED cacheVars

NextCoOp == \E append_outcome \in {"raises", "returns"} : CoOp(append_outcome)

SpecCoOp == InitCoOp /\ [][NextCoOp]_vars

\* C8: for every left partition count L >= 1, _co_op_helper returns the
\* result split into exactly L partitions, followed, when a left index was
\* supplied, by the result's index as one further, last element (L + 1
\* elements); without a left index exactly L elements are returned.
CoOpReturnsLeftCountBlocks ==
    pc = "returned" =>
        LET returned == BlocksOf(ret.value)
            L == call_args.left_df_len
        IN  /\ ret.raised = "none"
            /\ IF call_args.left_idx = None
               THEN Len(returned) = L
               ELSE /\ Len(returned) = L + 1
                    /\ returned[L + 1].tag = "index"
                    /\ returned[L + 1].labels = call_args.left_idx[1]

(***************************************************************************)
(* _match_partitioning                                                     *)
(***************************************************************************)
\* pandas.DataFrame() : an empty frame without columns.
EmptyFrame_NoColumns(columns) ==
    [index |-> <<>>, columns |-> <<>>, rows |-> <<>>, cols |-> <<>>]

\* pandas.DataFrame(columns=columns): no rows, the given column labels, and
\* columns that hold no data (0).
EmptyFrame(columns) ==
    [index |-> <<>>, columns |-> columns, rows |-> <<>>,
     cols |-> [j \in 1..Len(columns) |-> 0]]

\* The for loop over lengths[k..], partitioned_list holding the outputs so far.
RECURSIVE match_loop(_, _, _, _, _)
match_loop(column_partition, columns, lengths, k, partitioned_list) ==
    IF k > Len(lengths) THEN partitioned_list
    ELSE IF Len(column_partition.rows) = 0
    THEN match_loop(column_partition, columns, lengths, k + 1,
                    Append(partitioned_list, EmptyFrame(columns)))
    ELSE match_loop(iloc_rows(column_partition, lengths[k], Len(column_partition.rows)),
                    columns, lengths, k + 1,
                    Append(partitioned_list, iloc_rows(column_partition, 0, lengths[k])))

_match_partitioning(column_partition, lengths, index) ==
    match_loop([column_partition EXCEPT !.index = index],
               column_partition.columns, lengths, 1, <<>>)

\* The index shared by both sides of the merge, for a partition of n rows.
SharedIndex(n) == [i \in 1..n |-> 200 + i]

InitMatch ==
    /\ NoCache
    /\ pc = "called"
    /\ \E n_row \in 0..MaxRows, n_col \in 1..MaxCols,
          lengths \in SeqsUpTo(0..MaxLength, MaxParts) :
          call_args = [column_partition |-> reset_labels(MakeFrame(n_row, n_col)),
                       lengths |-> lengths,
                       index |-> SharedIndex(n_row)]
    /\ ret = <<>>
    /\ deploy_log = <<>>

MatchPartitioning ==
    /\ pc = "called"
    /\ ret' = _match_partitioning(call_args.column_partition, call_args.lengths,
                                  call_args.index)
    /\ pc' = "returned"
    /\ UNCHANGED <<call_args, deploy_log>>
    /\ UNCHANGED cacheVars

NextMatch == MatchPartitioning

SpecMatch == InitMatch /\ [][NextMatch]_vars

\* C9: _match_partitioning returns one output per target length; the
\* outputs in order are consecutive slices of the source from row 0, the
\* k-th having min(lengths[k], rows remaining) rows; every output, also the
\* empty ones after the source is exhausted, has the source's columns
\* (7 rows and targets [3, 3, 3] give 3, 3 and 1 rows).
MatchPartitioningSlices ==
    pc = "returned" =>
        LET source == call_args.column_partition
            S == Len(source.rows)
            Before(k) == Min(Sum(SubSeq(call_args.lengths, 1, k - 1)), S)
        IN  /\ Len(ret) = Len(call_args.lengths)
            /\ \A k \in 1..Len(ret) :
                  /\ Len(ret[k].rows) = Min(call_args.lengths[k], S - Before(k))
                  /\ ret[k].rows = SubSeq(source.rows, Before(k) + 1,
                                          Before(k) + Len(ret[k].rows))
                  /\ ret[k].index = SubSeq(call_args.index, Before(k) + 1,
                                           Before(k) + Len(ret[k].rows))
                  /\ ret[k].columns = source.columns
            /\ (S = 7 /\ call_args.lengths = <<3, 3, 3>>)
                  => [k \in 1..3 |-> Len(ret[k].rows)] = <<3, 3, 1>>

\* C9 witness: 7 rows were matched to the targets [3, 3, 3, 3]: the third
\* output has the one row left and the fourth is empty, with the columns.
MatchExhaustedReached ==
    /\ pc = "returned"
    /\ Len(call_args.column_partition.rows) = 7
    /\ Len(call_args.column_partition.columns) = 2
    /\ call_args.lengths = <<3, 3, 3, 3>>
    /\ ret[3].rows = <<7>>
    /\ ret[4].rows = <<>>
    /\ ret[4].columns = call_args.column_partition.columns

(***************************************************************************)
(* memoize.remote called twice concurrently on one wrapper.  A call is the *)
(* statements of remote, one step each: the membership test (line 97),     *)
(* the read of the cached result (98), the dispatch (101) and the store    *)
(* (102); LRUCache.__getitem__ and __setitem__ are each one step.          *)
(***************************************************************************)
Calls == {1, 2}

InitRace ==
    /\ capacity \in 1..MaxCapacity
    /\ cache = <<>>
    /\ recency = <<>>
    /\ last = [op |-> "init", key |-> <<>>, value |-> 0, raised |-> "none",
               result |-> 0, before |-> <<>>, recency |-> <<>>, log |-> <<>>]
    /\ dispatch_log = <<>>
    /\ evictions = [a \in ArgTuples |-> 0]
    /\ pc = [p \in Calls |-> "idle"]
    /\ call_args = [p \in Calls |-> <<>>]
    /\ ret = [p \in Calls |-> [raised |-> "none", value |-> 0]]
    /\ deploy_log = <<>>

\* Before the two calls: remote calls made one after another fill the cache.
RaceWarm(args) ==
    /\ \A p \in Calls : pc[p] = "idle"
    /\ Remote(args)

\* The two calls are issued; last keeps the cache and the dispatch log as
\* they are at that moment.
RaceStart(args1, args2) ==
    /\ \A p \in Calls : pc[p] = "idle"
    /\ pc' = [p \in Calls |-> "check"]
    /\ call_args' = [p \in Calls |-> IF p = 1 THEN args1 ELSE args2]
    /\ last' = LastRecord("start", args1, 0, "none", 0)
    /\ UNCHANGED <<capacity, cache, recency, dispatch_log, evictions, ret, deploy_log>>

\* if args in self.cache
RaceCheck(p) ==
    /\ pc[p] = "check"
    /\ pc' = [pc EXCEPT ![p] = IF LRUCache_contains(cache, call_args[p])
                                THEN "get" ELSE "dispatch"]
    /\ UNCHANGED <<call_args, ret, deploy_log>>
    /\ UNCHANGED cacheVars

\* cached_result = self.cache[args]; return cached_result
RaceGet(p) ==
    LET r == LRUCache_getitem(cache, call_args[p]) IN
    /\ pc[p] = "get"
    /\ cache' = r.cache
    /\ recency' = IF r.raised = "none" THEN Touch(recency, call_args[p]) ELSE recency
    /\ ret' = [ret EXCEPT ![p] = [raised |-> r.raised, value |-> r.value]]
    /\ pc' = [pc EXCEPT ![p] = "done"]
    /\ UNCHANGED <<capacity, last, dispatch_log, evictions, call_args, deploy_log>>

\* result = self.old_remote_func(*args)
RaceDispatch(p) ==
    /\ pc[p] = "dispatch"
    /\ dispatch_log' = Append(dispatch_log, call_args[p])
    /\ ret' = [ret EXCEPT ![p] = [raised |-> "none", value |-> Len(dispatch_log) + 1]]
    /\ pc' = [pc EXCEPT ![p] = "store"]
    /\ UNCHANGED <<capacity, cache, recency, last, evictions, call_args, deploy_log>>

\* self.cache[args] = result; return result
RaceStore(p) ==
    LET c == LRUCache_setitem(cache, capacity, call_args[p], ret[p].value) IN
    /\ pc[p] = "store"
    /\ cache' = c
    /\ recency' = Touch(recency, call_args[p])
    /\ evictions' = [a \in ArgTuples |->
                        IF a \in CacheKeys(cache) \ CacheKeys(c)
                        THEN evictions[a] + 1 ELSE evictions[a]]
    /\ pc' = [pc EXCEPT ![p] = "done"]
    /\ UNCHANGED <<capacity, last, dispatch_log, call_args, ret, deploy_log>>

NextRace ==
    \/ \E args \in ArgTuples : RaceWarm(args)
    \/ \E args1 \in ArgTuples, args2 \in ArgTuples : RaceStart(args1, args2)
    \/ \E p \in Calls : RaceCheck(p)
    \/ \E p \in Calls : RaceGet(p)
    \/ \E p \in Calls : RaceDispatch(p)
    \/ \E p \in Calls : RaceStore(p)

SpecRace == InitRace /\ [][NextRace]_vars

\* Both calls have returned, and they were made with the same tuple.
RaceOver ==
    /\ \A p \in Calls : pc[p] = "done"
    /\ call_args[1] = call_args[2]

\* The handles the two calls' dispatches returned.
RaceHandles == (Len(last.log) + 1)..Len(dispatch_log)

\* The cache after the two calls, had they run one after the other.
RaceSequentialCache ==
    LET first == memoize_remote(last.before, capacity, last.log, call_args[1])
    IN  memoize_remote(first.cache, capacity, first.log, call_args[2]).cache

====
